---- MODULE Spec2Model ----
(***************************************************************************)
(* ProjectScaffolder (node-typescript-scaffold): createProject as a state  *)
(* machine over a file system.  Every awaited fs call is an I/O operation  *)
(* that is issued by the invocation, performed by the operating system,    *)
(* and whose completion resumes the invocation.                            *)
(*                                                                         *)
(* Paths are sequences of segments: "/tmp/demo" is <<"tmp", "demo">>.      *)
(* File contents are sequences of strings: the fixed text of a file is one *)
(* string, and every place where the code interpolates an option into the  *)
(* text contributes the value of that option.                              *)
(***************************************************************************)
EXTENDS Integers, Sequences, FiniteSets, TLC

\* The number of createProject invocations one behaviour starts.
MaxCalls == 2

\* The number of I/O operations the environment refuses in one behaviour.
MaxFaults == 1

\* The invocations that can be in progress at the same time.
Procs == {1, 2}

(***************************************************************************)
(* Inputs                                                                  *)
(***************************************************************************)
KnownTemplates == {"basic", "express", "cli", "library"}

\* Property names every object literal inherits from Object.prototype.
InheritedNames == {"constructor", "toString"}

\* A name that is neither a template nor an inherited property.
UnknownNames == {"react"}

TemplateIds == KnownTemplates \cup InheritedNames \cup UnknownNames

\* ProjectOptions of a caller's first call: every template identifier with
\* every combination of the three flags.
SeqOptions ==
    [projectName : {"demo"}, projectPath : {<<"tmp">>}, template : TemplateIds,
     packageManager : {"npm"}, includeTests : BOOLEAN,
     includeLinting : BOOLEAN, includeGitignore : BOOLEAN]

\* ProjectOptions a caller may pass in a later call, besides those of the
\* call before: another template, package manager and flags for the same
\* destination.
AgainOptions ==
    [projectName : {"demo"}, projectPath : {<<"tmp">>}, template : {"library"},
     packageManager : {"yarn"}, includeTests : {TRUE},
     includeLinting : {FALSE}, includeGitignore : {TRUE}]

\* ProjectOptions of the invocations that overlap: equal and unrelated
\* destinations, and one nested in another where a generated file is.
ConcOptions ==
    [projectName : {"demo", "lib"}, projectPath : {<<"tmp">>},
     template : {"basic"}, packageManager : {"npm"},
     includeTests : {FALSE}, includeLinting : {FALSE},
     includeGitignore : {FALSE}]
    \cup [projectName : {"package.json"}, projectPath : {<<"tmp", "demo">>},
          template : {"basic"}, packageManager : {"npm"},
          includeTests : {FALSE}, includeLinting : {FALSE},
          includeGitignore : {FALSE}]

\* The options an idle invocation holds.
NoOptions ==
    [projectName |-> "", projectPath |-> <<>>, template |-> "",
     packageManager |-> "", includeTests |-> FALSE, includeLinting |-> FALSE,
     includeGitignore |-> FALSE]

(***************************************************************************)
(* Content generators bound in the templates' files maps                   *)
(***************************************************************************)
VARIABLES
    dirs,          \* the directories on disk
    files,         \* the files on disk: path -> content
    pc,            \* per invocation: idle, pending, settled, returned, thrown
    options,       \* per invocation: its ProjectOptions
    step,          \* per invocation: the index in Ops of the operation issued
    op,            \* per invocation: the operation issued
    io,            \* per invocation: how the operation issued ended
    filesCreated,  \* per invocation: the local filesCreated
    packageJson,   \* per invocation: the local packageJson
    tsConfig,      \* per invocation: the local tsConfig
    outcome,       \* per invocation: what the call returned or threw
    attempted,     \* history: the operations the invocation issued, in order
    completed,     \* history: the operations that have ended, in order
    written,       \* history: the paths whose write completed, in order
    failedAt,      \* history: the operation that failed, 0 when none did
    disk0,         \* history: the disk when the invocation was called
    peers,         \* history: destinations of the invocations it overlapped
    last,          \* history: the invocation that finished last
    generated,     \* history: <<generator, options, content>> produced
    calls,         \* the number of invocations started
    faults         \* the number of operations the environment refused

vars == <<dirs, files, pc, options, step, op, io, filesCreated, packageJson,
          tsConfig, outcome, attempted, completed, written, failedAt, disk0,
          peers, last, generated, calls, faults>>

BasicIndex == <<"console.log(\"Hello, TypeScript!\");">>

\* generateReadme as it would be if it looked at the project directory.
generateReadmeFromDisk(o) ==
    <<"# ", o.projectName, "## Description", o.template, o.packageManager>>
    \o (IF \E p \in DOMAIN files : p[Len(p)] = "README.md"
        THEN <<"## Changes">> ELSE <<>>)
    \o <<"## License">>

generateReadme(o) ==
    <<"# ", o.projectName, "## Description", o.template,
      "## Installation", o.packageManager, "## Development", o.packageManager,
      "## Build", o.packageManager, "## Start", o.packageManager>>
    \o (IF o.includeTests THEN <<"## Test", o.packageManager>> ELSE <<>>)
    \o (IF o.includeLinting
        THEN <<"## Linting", o.packageManager, o.packageManager>> ELSE <<>>)
    \o <<"## License">>

generateExpressIndex(o) ==
    <<"import express from 'express';", o.projectName, "app.listen">>

generateExpressRoutes(o) ==
    <<"import { Router } from 'express';", o.projectName, "version: '1.0.0'">>

generateCliIndex(o) ==
    <<"#!/usr/bin/env node", o.projectName, "program.parse();">>

generateCliCommands(o) ==
    <<"import { Command } from 'commander';", o.projectName, " - v1.0.0">>

generateLibraryIndex(o) == <<"export { ExampleClass } from './lib/example.js';">>

generateLibraryExample(o) == <<"export class ExampleClass {">>

generateGitignore == <<"# Dependencies">>

generateJestConfig == <<"module.exports = { preset: 'ts-jest' };">>

generateSampleTest(o) == <<"describe('", o.projectName, "should pass a basic test">>

\* typeof content === "function" ? content(options) : content
FileContent(gen, o) ==
    CASE gen = "literal" -> BasicIndex
      [] gen = "generateReadme" -> generateReadme(o)
      [] gen = "generateExpressIndex" -> generateExpressIndex(o)
      [] gen = "generateExpressRoutes" -> generateExpressRoutes(o)
      [] gen = "generateCliIndex" -> generateCliIndex(o)
      [] gen = "generateCliCommands" -> generateCliCommands(o)
      [] gen = "generateLibraryIndex" -> generateLibraryIndex(o)
      [] gen = "generateLibraryExample" -> generateLibraryExample(o)

(***************************************************************************)
(* The template registry                                                   *)
(***************************************************************************)
File(p, gen) == [path |-> p, gen |-> gen]

Template(n, fs, deps, devDeps) ==
    [kind |-> "template", name |-> n, files |-> fs, dependencies |-> deps,
     devDependencies |-> devDeps]

templates ==
    [basic |->
        Template("basic",
                 <<File(<<"src", "index.ts">>, "literal"),
                   File(<<"README.md">>, "generateReadme")>>,
                 <<>>, <<"typescript", "@types/node">>),
     express |->
        Template("express",
                 <<File(<<"src", "index.ts">>, "generateExpressIndex"),
                   File(<<"src", "routes", "index.ts">>, "generateExpressRoutes"),
                   File(<<"README.md">>, "generateReadme")>>,
                 <<"express">>, <<"typescript", "@types/node", "@types/express">>),
     cli |->
        Template("cli",
                 <<File(<<"src", "index.ts">>, "generateCliIndex"),
                   File(<<"src", "commands", "index.ts">>, "generateCliCommands"),
                   File(<<"README.md">>, "generateReadme")>>,
                 <<"commander">>, <<"typescript", "@types/node">>),
     library |->
        Template("library",
                 <<File(<<"src", "index.ts">>, "generateLibraryIndex"),
                   File(<<"src", "lib", "example.ts">>, "generateLibraryExample"),
                   File(<<"README.md">>, "generateReadme")>>,
                 <<>>, <<"typescript", "@types/node">>)]

\* A value that is not a Template: undefined, or a function object that the
\* templates object inherits, which has no files and no dependency lists.
NotATemplate(k) ==
    [kind |-> k, name |-> "", files |-> <<>>, dependencies |-> <<>>,
     devDependencies |-> <<>>]

\* The lookup as it would be if the basic template had no README.md.
LookupWithoutReadme(t) ==
    IF t = "basic" THEN [templates[t] EXCEPT !.files = SubSeq(@, 1, 1)]
    ELSE IF t \in DOMAIN templates THEN templates[t]
    ELSE IF t \in InheritedNames THEN NotATemplate("function")
    ELSE NotATemplate("undefined")

\* this.templates[options.template]: an own property, else a property of
\* Object.prototype, else undefined.
Lookup(t) ==
    IF t \in DOMAIN templates THEN templates[t]
    ELSE IF t \in InheritedNames THEN NotATemplate("function")
    ELSE NotATemplate("undefined")

\* if (!template): only undefined is falsy here.
Falsy(v) == v.kind = "undefined"

(***************************************************************************)
(* Manifest and compiler configuration                                     *)
(***************************************************************************)
\* A JavaScript object with string values: its <<key, value>> entries in
\* insertion order.
HasKey(obj, key) == \E n \in 1..Len(obj) : obj[n][1] = key

\* obj[key] = value: an existing key keeps its place, a new one goes last.
SetKey(obj, key, value) ==
    IF HasKey(obj, key)
    THEN [n \in 1..Len(obj) |->
            IF obj[n][1] = key THEN <<key, value>> ELSE obj[n]]
    ELSE Append(obj, <<key, value>>)

Get(obj, key) == obj[CHOOSE n \in 1..Len(obj) : obj[n][1] = key][2]

Keys(obj) == {obj[n][1] : n \in 1..Len(obj)}

RECURSIVE pinAll(_, _, _)
\* deps.forEach((dep) => { obj[dep] = "latest"; }), from the n-th entry on.
pinAll(obj, deps, n) ==
    IF n > Len(deps) THEN obj
    ELSE pinAll(SetKey(obj, deps[n], "latest"), deps, n + 1)

basePackage(o) ==
    [name |-> o.projectName, version |-> "1.0.0", description |-> "",
     main |-> "dist/index.js",
     scripts |-> <<<<"build", "tsc">>, <<"dev", "tsc --watch">>,
                   <<"start", "node dist/index.js">>>>,
     keywords |-> <<>>, author |-> "", license |-> "ISC",
     dependencies |-> <<>>, devDependencies |-> <<>>]

\* Add template-specific dependencies
withTemplateDeps(pkg, t) ==
    [pkg EXCEPT !.dependencies = pinAll(@, t.dependencies, 1),
                !.devDependencies = pinAll(@, t.devDependencies, 1)]

\* withTests as it would be without the test of options.includeTests.
withTestsAlways(pkg, o) ==
    [pkg EXCEPT
        !.devDependencies =
            SetKey(SetKey(SetKey(@, "jest", "latest"),
                          "@types/jest", "latest"), "ts-jest", "latest"),
        !.scripts = SetKey(SetKey(@, "test", "jest"),
                           "test:watch", "jest --watch")]

\* Add testing dependencies if requested
withTests(pkg, o) ==
    IF o.includeTests
    THEN [pkg EXCEPT
            !.devDependencies =
                SetKey(SetKey(SetKey(@, "jest", "latest"),
                              "@types/jest", "latest"), "ts-jest", "latest"),
            !.scripts = SetKey(SetKey(@, "test", "jest"),
                               "test:watch", "jest --watch")]
    ELSE pkg

\* Add linting dependencies if requested
withLinting(pkg, o) ==
    IF o.includeLinting
    THEN [pkg EXCEPT
            !.devDependencies =
                SetKey(SetKey(SetKey(SetKey(@, "eslint", "latest"),
                                     "@typescript-eslint/parser", "latest"),
                              "@typescript-eslint/eslint-plugin", "latest"),
                       "prettier", "latest"),
            !.scripts =
                SetKey(SetKey(SetKey(@, "lint", "eslint src/**/*.ts"),
                              "lint:fix", "eslint src/**/*.ts --fix"),
                       "format", "prettier --write src/**/*.ts")]
    ELSE pkg

\* withBin as it would be if every template got a bin entry.
withBinAlways(pkg, o) ==
    pkg @@ [bin |-> <<<<o.projectName, "./dist/index.js">>>>]

\* Add CLI-specific configuration
withBin(pkg, o) ==
    IF o.template = "cli"
    THEN pkg @@ [bin |-> <<<<o.projectName, "./dist/index.js">>>>]
    ELSE pkg

TypeErrorForEach == "Cannot read properties of undefined (reading 'forEach')"

\* The manifest, or the TypeError of calling forEach on the dependencies of
\* a value that has none.
generatePackageJson(o, t) ==
    IF t.kind # "template"
    THEN [threw |-> TRUE, msg |-> TypeErrorForEach, value |-> basePackage(o)]
    ELSE [threw |-> FALSE, msg |-> "",
          value |-> withBin(withLinting(withTests(
                        withTemplateDeps(basePackage(o), t), o), o), o)]

Bool(b) == IF b THEN "true" ELSE "false"

\* isLibrary as it would be if only the basic template went without
\* declarations.
isNotBasic(o) == o.template # "basic"

\* options.template === "library"
isLibrary(o) == o.template = "library"

generateTsConfig(o) ==
    [compilerOptions |->
        [target |-> "ES2020", module |-> "commonjs", lib |-> <<"ES2020">>,
         outDir |-> "./dist", rootDir |-> "./src", strict |-> TRUE,
         esModuleInterop |-> TRUE, skipLibCheck |-> TRUE,
         forceConsistentCasingInFileNames |-> TRUE,
         declaration |-> isLibrary(o), declarationMap |-> isLibrary(o),
         sourceMap |-> TRUE],
     include |-> <<"src/**/*">>,
     exclude |-> <<"node_modules", "dist">>]

RECURSIVE entriesText(_, _)
\* The text of an object's entries in insertion order, from the n-th on.
entriesText(obj, n) ==
    IF n > Len(obj) THEN <<>>
    ELSE <<obj[n][1], obj[n][2]>> \o entriesText(obj, n + 1)

\* JSON.stringify(packageJson, null, 2): the keys in insertion order, each
\* followed by its value.
stringifyPackageJson(pkg) ==
    <<"name", pkg.name, "version", pkg.version, "description",
      pkg.description, "main", pkg.main, "scripts">>
    \o entriesText(pkg.scripts, 1)
    \o <<"keywords">> \o pkg.keywords
    \o <<"author", pkg.author, "license", pkg.license, "dependencies">>
    \o entriesText(pkg.dependencies, 1)
    \o <<"devDependencies">> \o entriesText(pkg.devDependencies, 1)
    \o (IF "bin" \in DOMAIN pkg THEN <<"bin">> \o entriesText(pkg.bin, 1)
        ELSE <<>>)

\* JSON.stringify(tsConfig, null, 2)
stringifyTsConfig(ts) ==
    LET c == ts.compilerOptions IN
    <<"compilerOptions", "target", c.target, "module", c.module, "lib">>
    \o c.lib
    \o <<"outDir", c.outDir, "rootDir", c.rootDir, "strict", Bool(c.strict),
         "esModuleInterop", Bool(c.esModuleInterop),
         "skipLibCheck", Bool(c.skipLibCheck),
         "forceConsistentCasingInFileNames",
         Bool(c.forceConsistentCasingInFileNames),
         "declaration", Bool(c.declaration),
         "declarationMap", Bool(c.declarationMap),
         "sourceMap", Bool(c.sourceMap), "include">>
    \o ts.include \o <<"exclude">> \o ts.exclude

\* JSON.stringify(eslintConfig, null, 2) and JSON.stringify(prettierConfig,
\* null, 2): both objects are fixed.
eslintText == <<"parser", "@typescript-eslint/parser", "extends", "rules">>

prettierText == <<"semi", "true", "trailingComma", "es5", "singleQuote", "true">>

(***************************************************************************)
(* The file system                                                         *)
(***************************************************************************)
Disk(d, f) == [dirs |-> d, files |-> f]

NoFiles == [p \in {} |-> <<>>]

EmptyDisk == Disk({<<>>}, NoFiles)

Prefixes(p) == {SubSeq(p, 1, n) : n \in 0..Len(p)}

dirname(p) == SubSeq(p, 1, Len(p) - 1)

\* Whether p is dest or lies below it.
Under(p, dest) == Len(p) >= Len(dest) /\ SubSeq(p, 1, Len(dest)) = dest

\* mkdir as it would be without recursive: true on an existing directory.
MkdirExclusive(disk, p) ==
    IF p \in disk.dirs \/ p \in DOMAIN disk.files
    THEN [res |-> "EEXIST", disk |-> disk]
    ELSE IF \E q \in Prefixes(p) : q \in DOMAIN disk.files
    THEN [res |-> "ENOTDIR", disk |-> disk]
    ELSE [res |-> "ok", disk |-> Disk(disk.dirs \cup Prefixes(p), disk.files)]

\* fs.mkdir(p, { recursive: true }): creates p and its missing ancestors and
\* succeeds when p is a directory already; fails when p or an ancestor is a
\* file.
Mkdir(disk, p) ==
    IF p \in DOMAIN disk.files
    THEN [res |-> "EEXIST", disk |-> disk]
    ELSE IF \E q \in Prefixes(p) : q \in DOMAIN disk.files
    THEN [res |-> "ENOTDIR", disk |-> disk]
    ELSE [res |-> "ok", disk |-> Disk(disk.dirs \cup Prefixes(p), disk.files)]

\* fs.writeFile(p, content): creates or replaces the file p; fails when p is
\* a directory or its parent is not one.
WriteFile(disk, p, content) ==
    IF p \in disk.dirs
    THEN [res |-> "EISDIR", disk |-> disk]
    ELSE IF \E q \in Prefixes(dirname(p)) : q \in DOMAIN disk.files
    THEN [res |-> "ENOTDIR", disk |-> disk]
    ELSE IF dirname(p) \notin disk.dirs
    THEN [res |-> "ENOENT", disk |-> disk]
    ELSE [res |-> "ok",
          disk |-> Disk(disk.dirs,
                        [q \in DOMAIN disk.files \cup {p} |->
                            IF q = p THEN content ELSE disk.files[q]])]

\* The error of an operation the environment refuses (permission denied,
\* disk full): the operation changes nothing.
InjectedFault == "EACCES"

(***************************************************************************)
(* createProject: the I/O operations of one invocation, in program order   *)
(***************************************************************************)
\* path.resolve(options.projectPath, options.projectName), for an absolute
\* projectPath and a projectName of one segment.
fullProjectPath(o) == o.projectPath \o <<o.projectName>>

\* path.join(fullProjectPath, filePath)
join(full, rel) == full \o rel

\* await fs.mkdir(path, { recursive: true })
MkdirOp(p) ==
    [op |-> "mkdir", path |-> p, content |-> <<>>, push |-> <<>>, gen |-> "",
     local |-> "", msg |-> <<>>]

\* await fs.writeFile(path, content); filesCreated.push(push).  gen names
\* the template's generator of the content, local the variable the code
\* computes before the write.
WriteOp(p, content, push, gen, local) ==
    [op |-> "writeFile", path |-> p, content |-> content, push |-> push,
     gen |-> gen, local |-> local, msg |-> <<>>]

\* An exception thrown by the synchronous code between two awaits.
ThrowOp(msg) ==
    [op |-> "throw", path |-> <<>>, content |-> <<>>, push |-> <<>>,
     gen |-> "", local |-> "", msg |-> msg]

RECURSIVE templateOps(_, _, _)
\* for (const [filePath, content] of Object.entries(template.files)), from
\* the n-th entry on.
templateOps(o, fs, n) ==
    IF n > Len(fs) THEN <<>>
    ELSE LET fullPath == join(fullProjectPath(o), fs[n].path) IN
         <<MkdirOp(dirname(fullPath)),
           WriteOp(fullPath, FileContent(fs[n].gen, o), fs[n].path,
                   fs[n].gen, "")>>
         \o templateOps(o, fs, n + 1)

\* gitignoreOps as it would be without the test of options.includeGitignore.
gitignoreOpsAlways(o) ==
    <<WriteOp(join(fullProjectPath(o), <<".gitignore">>),
              generateGitignore, <<".gitignore">>, "", "")>>

\* Create .gitignore if requested
gitignoreOps(o) ==
    IF o.includeGitignore
    THEN <<WriteOp(join(fullProjectPath(o), <<".gitignore">>),
                   generateGitignore, <<".gitignore">>, "", "")>>
    ELSE <<>>

lintingOps(o) ==
    IF o.includeLinting
    THEN <<WriteOp(join(fullProjectPath(o), <<".eslintrc.json">>),
                   eslintText, <<".eslintrc.json">>, "", ""),
           WriteOp(join(fullProjectPath(o), <<".prettierrc">>),
                   prettierText, <<".prettierrc">>, "", "")>>
    ELSE <<>>

testOps(o) ==
    IF o.includeTests
    THEN LET testDir == join(fullProjectPath(o), <<"src", "__tests__">>) IN
         <<WriteOp(join(fullProjectPath(o), <<"jest.config.js">>),
                   generateJestConfig, <<"jest.config.js">>, "", ""),
           MkdirOp(testDir),
           WriteOp(join(testDir, <<"index.test.ts">>), generateSampleTest(o),
                   <<"src", "__tests__", "index.test.ts">>, "", "")>>
    ELSE <<>>

\* What createProject does after the template lookup succeeded.
Ops(o) ==
    LET t == Lookup(o.template)
        full == fullProjectPath(o)
        pkg == generatePackageJson(o, t)
    IN  <<MkdirOp(full)>>
        \o (IF pkg.threw THEN <<ThrowOp(<<pkg.msg>>)>>
            ELSE <<WriteOp(join(full, <<"package.json">>),
                           stringifyPackageJson(pkg.value),
                           <<"package.json">>, "", "packageJson"),
                   WriteOp(join(full, <<"tsconfig.json">>),
                           stringifyTsConfig(generateTsConfig(o)),
                           <<"tsconfig.json">>, "", "tsConfig")>>
                 \o templateOps(o, t.files, 1)
                 \o gitignoreOps(o) \o lintingOps(o) \o testOps(o))

\* new Error(`Template "${options.template}" not found`)
TemplateNotFound(t) == <<"Template \"", t, "\" not found">>

\* The operating system performs an operation on the disk.
Do(disk, o) ==
    IF o.op = "mkdir" THEN Mkdir(disk, o.path)
    ELSE WriteFile(disk, o.path, o.content)

\* Rejected as it would be if the error of an operation were swallowed.
RejectedNever(res) == FALSE

\* An awaited promise that was rejected throws at the await.
Rejected(res) == res # "ok"

\* filesCreatedOf as it would be if filesCreated were a field of the one
\* scaffolder object.
filesCreatedShared(i) == 1

\* filesCreated is a local of the invocation: each has its own.
filesCreatedOf(i) == i

(***************************************************************************)
(* State                                                                   *)
(***************************************************************************)
NoOp == ThrowOp(<<>>)

NoOutcome == [kind |-> "none"]

Returned(full, fc) ==
    [kind |-> "return", projectPath |-> full, filesCreated |-> fc]

Threw(msg) == [kind |-> "throw", message |-> msg]

Unset == [set |-> FALSE]

Active == {i \in Procs : pc[i] # "idle"}

Done == {i \in Procs : pc[i] \in {"returned", "thrown"}}

Init ==
    /\ dirs = EmptyDisk.dirs
    /\ files = EmptyDisk.files
    /\ pc = [i \in Procs |-> "idle"]
    /\ options = [i \in Procs |-> NoOptions]
    /\ step = [i \in Procs |-> 0]
    /\ op = [i \in Procs |-> NoOp]
    /\ io = [i \in Procs |-> "ok"]
    /\ filesCreated = [i \in Procs |-> <<>>]
    /\ packageJson = [i \in Procs |-> Unset]
    /\ tsConfig = [i \in Procs |-> Unset]
    /\ outcome = [i \in Procs |-> NoOutcome]
    /\ attempted = [i \in Procs |-> <<>>]
    /\ completed = [i \in Procs |-> <<>>]
    /\ written = [i \in Procs |-> <<>>]
    /\ failedAt = [i \in Procs |-> 0]
    /\ disk0 = [i \in Procs |-> EmptyDisk]
    /\ peers = [i \in Procs |-> {}]
    /\ last = Unset
    /\ generated = {}
    /\ calls = 0
    /\ faults = 0

\* The invocation issues its n-th operation: the synchronous code up to the
\* next await runs, and either throws or leaves the operation in flight.
Issue(i, o, n) ==
    LET next == Ops(o)[n] IN
    IF next.op = "throw"
    THEN /\ pc' = [pc EXCEPT ![i] = "thrown"]
         /\ outcome' = [outcome EXCEPT ![i] = Threw(next.msg)]
         /\ UNCHANGED <<step, op, attempted, packageJson, tsConfig, generated>>
    ELSE /\ pc' = [pc EXCEPT ![i] = "pending"]
         /\ step' = [step EXCEPT ![i] = n]
         /\ op' = [op EXCEPT ![i] = next]
         /\ attempted' = [attempted EXCEPT ![i] = Append(@, n)]
         /\ packageJson' =
                IF next.local = "packageJson"
                THEN [packageJson EXCEPT ![i] =
                        [set |-> TRUE,
                         value |-> generatePackageJson(
                                       o, Lookup(o.template)).value]]
                ELSE packageJson
         /\ tsConfig' =
                IF next.local = "tsConfig"
                THEN [tsConfig EXCEPT ![i] =
                        [set |-> TRUE, value |-> generateTsConfig(o)]]
                ELSE tsConfig
         /\ generated' =
                IF next.gen # ""
                THEN generated \cup {<<next.gen, o, next.content>>}
                ELSE generated
         /\ UNCHANGED outcome

\* createProject(options) is called: the lookup, and on a hit the first
\* operation is issued.
Call(i, o) ==
    /\ pc[i] = "idle"
    /\ calls < MaxCalls
    /\ calls' = calls + 1
    /\ options' = [options EXCEPT ![i] = o]
    /\ disk0' = [disk0 EXCEPT ![i] = Disk(dirs, files)]
    /\ peers' = [j \in Procs |->
                    IF j = i
                    THEN {fullProjectPath(options[k]) : k \in Active \ {i}}
                    ELSE IF j \in Active
                    THEN peers[j] \cup {fullProjectPath(o)}
                    ELSE peers[j]]
    /\ IF Falsy(Lookup(o.template))
       THEN /\ pc' = [pc EXCEPT ![i] = "thrown"]
            /\ outcome' = [outcome EXCEPT ![i] =
                              Threw(TemplateNotFound(o.template))]
            /\ UNCHANGED <<step, op, attempted, packageJson, tsConfig,
                           generated, filesCreated>>
       ELSE /\ filesCreated' = [filesCreated EXCEPT ![filesCreatedOf(i)] = <<>>]
            /\ Issue(i, o, 1)
    /\ UNCHANGED <<dirs, files, io, completed, written, failedAt, last, faults>>

\* The operating system performs the operation in flight.
Perform(i) ==
    /\ pc[i] = "pending"
    /\ LET r == Do(Disk(dirs, files), op[i]) IN
        /\ dirs' = r.disk.dirs
        /\ files' = r.disk.files
        /\ io' = [io EXCEPT ![i] = r.res]
        /\ written' = IF r.res = "ok" /\ op[i].op = "writeFile"
                      THEN [written EXCEPT ![i] = Append(@, op[i].path)]
                      ELSE written
        /\ failedAt' = IF r.res = "ok" THEN failedAt
                       ELSE [failedAt EXCEPT ![i] = step[i]]
    /\ completed' = [completed EXCEPT ![i] = Append(@, step[i])]
    /\ pc' = [pc EXCEPT ![i] = "settled"]
    /\ UNCHANGED <<options, step, op, filesCreated, packageJson, tsConfig,
                   outcome, attempted, disk0, peers, last, generated, calls,
                   faults>>

\* The environment refuses the operation in flight.
Fault(i) ==
    /\ pc[i] = "pending"
    /\ faults < MaxFaults
    /\ faults' = faults + 1
    /\ io' = [io EXCEPT ![i] = InjectedFault]
    /\ failedAt' = [failedAt EXCEPT ![i] = step[i]]
    /\ completed' = [completed EXCEPT ![i] = Append(@, step[i])]
    /\ pc' = [pc EXCEPT ![i] = "settled"]
    /\ UNCHANGED <<dirs, files, options, step, op, filesCreated, packageJson,
                   tsConfig, outcome, attempted, written, disk0, peers, last,
                   generated, calls>>

\* createProject as it would be without its awaits: the file is recorded and
\* the next operation issued while the one before may still be in flight.
ResumeWithoutAwait(i) ==
    /\ pc[i] \in {"pending", "settled"}
    /\ step[i] < Len(Ops(options[i]))
    /\ filesCreated' =
           [filesCreated EXCEPT ![filesCreatedOf(i)] =
               IF op[i].push = <<>> THEN @ ELSE Append(@, op[i].push)]
    /\ Issue(i, options[i], step[i] + 1)
    /\ UNCHANGED <<dirs, files, options, io, completed, written, failedAt,
                   disk0, peers, last, calls, faults>>

\* The await completes: the invocation throws the error of a failed
\* operation, or records the file, and then returns or issues the next
\* operation.
Resume(i) ==
    /\ pc[i] = "settled"
    /\ IF Rejected(io[i])
       THEN /\ pc' = [pc EXCEPT ![i] = "thrown"]
            /\ outcome' = [outcome EXCEPT ![i] = Threw(<<io[i]>>)]
            /\ UNCHANGED <<step, op, filesCreated, packageJson, tsConfig,
                           attempted, generated>>
       ELSE LET fc == IF op[i].push = <<>>
                      THEN filesCreated[filesCreatedOf(i)]
                      ELSE Append(filesCreated[filesCreatedOf(i)], op[i].push)
            IN  /\ filesCreated' =
                       [filesCreated EXCEPT ![filesCreatedOf(i)] = fc]
                /\ IF step[i] = Len(Ops(options[i]))
                   THEN /\ pc' = [pc EXCEPT ![i] = "returned"]
                        /\ outcome' =
                               [outcome EXCEPT ![i] =
                                   Returned(fullProjectPath(options[i]), fc)]
                        /\ UNCHANGED <<step, op, packageJson, tsConfig,
                                       attempted, generated>>
                   ELSE Issue(i, options[i], step[i] + 1)
    /\ UNCHANGED <<dirs, files, options, io, completed, written, failedAt,
                   disk0, peers, last, calls, faults>>

\* The create-node-project handler.  The options it hands to createProject:
\* an empty template or package manager falls back to the default, and a flag
\* is on unless it is exactly false.
handlerOptions(args) ==
    [projectName |-> args.projectName,
     projectPath |-> args.projectPath,
     template |-> IF args.template = "" THEN "basic" ELSE args.template,
     packageManager |-> IF args.packageManager = "" THEN "npm"
                        ELSE args.packageManager,
     includeTests |-> args.includeTests # FALSE,
     includeLinting |-> args.includeLinting # FALSE,
     includeGitignore |-> args.includeGitignore # FALSE]

\* filesCreated.map(f => `- ${f}`).join('\n')
RECURSIVE filesList(_)
filesList(fc) ==
    IF fc = <<>> THEN <<>> ELSE <<"- ">> \o Head(fc) \o filesList(Tail(fc))

\* The result of the try block: one text item, and no isError field.
successResult(o, result) ==
    [content |->
        <<"Project created successfully!", "Project: ", o.projectName,
          "Path: ">> \o result.projectPath
        \o <<"Template: ", o.template, "Next steps:", "1. cd ">>
        \o result.projectPath
        \o <<"2. ", o.packageManager, " install",
             "3. ", o.packageManager, " run dev", "Files created:">>
        \o filesList(result.filesCreated)]

\* A handler whose catch block leaves the error mark out.
catchUnmarked(message) ==
    [content |-> <<"Error creating project: ">> \o message]

\* The result of the catch block: the message of the error, marked.
catchResult(message) ==
    [content |-> <<"Error creating project: ">> \o message,
     isError |-> TRUE]

\* What the handler answers once the awaited createProject has settled.
\* Nothing leaves the try/catch: every outcome becomes a result.
handlerResult(o, out) ==
    IF out.kind = "return"
    THEN [kind |-> "result", result |-> successResult(o, out)]
    ELSE [kind |-> "result", result |-> catchResult(out.message)]

\* The caller takes the result: the invocation is over.
Finish(i) ==
    /\ pc[i] \in {"returned", "thrown"}
    /\ last' = [set |-> TRUE, options |-> options[i], outcome |-> outcome[i],
                disk |-> Disk(dirs, files),
                response |-> handlerResult(options[i], outcome[i])]
    /\ pc' = [pc EXCEPT ![i] = "idle"]
    /\ options' = [options EXCEPT ![i] = NoOptions]
    /\ step' = [step EXCEPT ![i] = 0]
    /\ op' = [op EXCEPT ![i] = NoOp]
    /\ io' = [io EXCEPT ![i] = "ok"]
    /\ packageJson' = [packageJson EXCEPT ![i] = Unset]
    /\ tsConfig' = [tsConfig EXCEPT ![i] = Unset]
    /\ outcome' = [outcome EXCEPT ![i] = NoOutcome]
    /\ attempted' = [attempted EXCEPT ![i] = <<>>]
    /\ completed' = [completed EXCEPT ![i] = <<>>]
    /\ written' = [written EXCEPT ![i] = <<>>]
    /\ failedAt' = [failedAt EXCEPT ![i] = 0]
    /\ disk0' = [disk0 EXCEPT ![i] = EmptyDisk]
    /\ peers' = [peers EXCEPT ![i] = {}]
    /\ UNCHANGED <<dirs, files, filesCreated, generated, calls, faults>>

\* One caller that awaits each call before it makes the next, on a machine
\* whose file system can refuse any operation.
FirstCall(i) ==
    \E o \in SeqOptions : calls = 0 /\ Call(i, handlerOptions(o))

LaterCall(i) ==
    /\ last.set
    /\ \E o \in {last.options} \cup AgainOptions :
           Call(i, handlerOptions(o))

Next ==
    \/ FirstCall(1)
    \/ LaterCall(1)
    \/ Perform(1)
    \/ Fault(1)
    \/ Resume(1)
    \/ Finish(1)

Spec == Init /\ [][Next]_vars

\* Callers whose calls overlap: the awaited operations of the invocations
\* interleave in any order.
NextConc ==
    \E i \in Procs :
        \/ \E o \in ConcOptions : Call(i, handlerOptions(o))
        \/ Perform(i)
        \/ Resume(i)
        \/ Finish(i)

SpecConc == Init /\ [][NextConc]_vars

(***************************************************************************)
(* What an invocation does when nothing else touches the disk              *)
(***************************************************************************)
RECURSIVE Run(_, _, _, _)
\* The operations n..m of ops performed in order from disk, up to the first
\* one that fails or throws.
Run(disk, ops, n, m) ==
    IF n > m THEN [disk |-> disk, failedAt |-> 0, res |-> "ok"]
    ELSE IF ops[n].op = "throw"
    THEN [disk |-> disk, failedAt |-> n, res |-> "throw"]
    ELSE LET r == Do(disk, ops[n]) IN
         IF r.res # "ok" THEN [disk |-> disk, failedAt |-> n, res |-> r.res]
         ELSE Run(r.disk, ops, n + 1, m)

RECURSIVE Pushes(_, _)
\* The paths the operations of ops push to filesCreated, from the n-th on.
Pushes(ops, n) ==
    IF n > Len(ops) THEN <<>>
    ELSE (IF ops[n].push = <<>> THEN <<>> ELSE <<ops[n].push>>)
         \o Pushes(ops, n + 1)

\* The result of createProject(o) called on disk d with nothing else running
\* and no operation refused.
Alone(o, d) ==
    LET ops == Ops(o)
        r == Run(d, ops, 1, Len(ops))
    IN  [disk |-> r.disk,
         outcome |->
            IF Falsy(Lookup(o.template))
            THEN Threw(TemplateNotFound(o.template))
            ELSE IF r.failedAt = 0
            THEN Returned(fullProjectPath(o), Pushes(ops, 1))
            ELSE IF r.res = "throw" THEN Threw(ops[r.failedAt].msg)
            ELSE Threw(<<r.res>>)]

\* Neither destination is the other or lies below it.
Independent(a, b) == ~Under(a, b) /\ ~Under(b, a)

\* Two disks hold the same directories and the same files with the same
\* contents at and below dest.
SameBelow(d, e, dest) ==
    /\ {p \in d.dirs : Under(p, dest)} = {p \in e.dirs : Under(p, dest)}
    /\ {p \in DOMAIN d.files : Under(p, dest)}
         = {p \in DOMAIN e.files : Under(p, dest)}
    /\ \A p \in DOMAIN d.files : Under(p, dest) => d.files[p] = e.files[p]

(***************************************************************************)
(* C1                                                                      *)
(***************************************************************************)
\* C1: an invocation whose template identifier is not basic, express, cli or
\* library changes nothing on disk, and when it is over it has failed with
\* the template-not-found error.
C1_UnknownTemplateFailsWithoutIO ==
    \A i \in Procs :
        (pc[i] # "idle" /\ options[i].template \notin KnownTemplates) =>
            /\ Disk(dirs, files) = disk0[i]
            /\ pc[i] \in {"returned", "thrown"} =>
                   outcome[i] = Threw(TemplateNotFound(options[i].template))

(***************************************************************************)
(* C2                                                                      *)
(***************************************************************************)
\* The files of each template in the order its files map declares them.
DeclaredFiles(t) ==
    CASE t = "basic" -> <<<<"src", "index.ts">>, <<"README.md">>>>
      [] t = "express" ->
            <<<<"src", "index.ts">>, <<"src", "routes", "index.ts">>,
              <<"README.md">>>>
      [] t = "cli" ->
            <<<<"src", "index.ts">>, <<"src", "commands", "index.ts">>,
              <<"README.md">>>>
      [] t = "library" ->
            <<<<"src", "index.ts">>, <<"src", "lib", "example.ts">>,
              <<"README.md">>>>

ExpectedFiles(o) ==
    <<<<"package.json">>, <<"tsconfig.json">>>>
    \o DeclaredFiles(o.template)
    \o (IF o.includeGitignore THEN <<<<".gitignore">>>> ELSE <<>>)
    \o (IF o.includeLinting
        THEN <<<<".eslintrc.json">>, <<".prettierrc">>>> ELSE <<>>)
    \o (IF o.includeTests
        THEN <<<<"jest.config.js">>, <<"src", "__tests__", "index.test.ts">>>>
        ELSE <<>>)

AllFlags(o, b) ==
    o.includeGitignore = b /\ o.includeLinting = b /\ o.includeTests = b

\* C2: a call that returns gives filesCreated equal to package.json,
\* tsconfig.json, the template's files in declared order, then .gitignore,
\* .eslintrc.json and .prettierrc, jest.config.js and
\* src/__tests__/index.test.ts, each group iff its flag is set; the writes
\* completed in exactly that order; express with all flags gives the ten
\* entries listed and basic with no flag the four listed.
C2_FilesCreatedInWriteOrder ==
    \A i \in Procs :
        pc[i] = "returned" =>
            LET o == options[i]
                fc == outcome[i].filesCreated
            IN  /\ fc = ExpectedFiles(o)
                /\ written[i] =
                       [n \in 1..Len(fc) |-> join(fullProjectPath(o), fc[n])]
                /\ (o.template = "express" /\ AllFlags(o, TRUE)) =>
                       fc = <<<<"package.json">>, <<"tsconfig.json">>,
                              <<"src", "index.ts">>,
                              <<"src", "routes", "index.ts">>,
                              <<"README.md">>, <<".gitignore">>,
                              <<".eslintrc.json">>, <<".prettierrc">>,
                              <<"jest.config.js">>,
                              <<"src", "__tests__", "index.test.ts">>>>
                /\ (o.template = "basic" /\ AllFlags(o, FALSE)) =>
                       fc = <<<<"package.json">>, <<"tsconfig.json">>,
                              <<"src", "index.ts">>, <<"README.md">>>>

\* An express project with every flag set has been created.
C2_Witness ==
    \E i \in Procs :
        /\ pc[i] = "returned"
        /\ options[i].template = "express"
        /\ AllFlags(options[i], TRUE)
        /\ Len(outcome[i].filesCreated) = 10
        /\ Len(written[i]) = 10

(***************************************************************************)
(* C3                                                                      *)
(***************************************************************************)
\* C3: once an operation of an invocation has failed, the invocation issues
\* no further operation and does not issue the failed one again, it throws
\* the error of that operation, and the disk holds what the operations before
\* the failed one made of the disk the call started on.
C3_FailureStopsAndKeepsPrefix ==
    \A i \in Procs :
        failedAt[i] # 0 =>
            /\ pc[i] \in {"settled", "thrown"}
            /\ attempted[i] = [n \in 1..failedAt[i] |-> n]
            /\ pc[i] = "thrown" => outcome[i] = Threw(<<io[i]>>)
            /\ Disk(dirs, files)
                 = Run(disk0[i], Ops(options[i]), 1, failedAt[i] - 1).disk

\* A call has thrown the error of a write that came after completed writes.
C3_Witness ==
    \E i \in Procs :
        /\ pc[i] = "thrown"
        /\ failedAt[i] > 3
        /\ outcome[i] = Threw(<<InjectedFault>>)
        /\ Len(written[i]) >= 2
        /\ \A n \in 1..Len(written[i]) : written[i][n] \in DOMAIN files

(***************************************************************************)
(* C4                                                                      *)
(***************************************************************************)
\* C4: no operation of createProject fails because a directory or a file
\* exists already (the only failures are those the environment injects), and
\* a call that returns after a call with the same options returned gives the
\* same result and leaves the disk as that call left it.
C4_RerunIsIdempotent ==
    \A i \in Procs :
        /\ failedAt[i] # 0 => io[i] = InjectedFault
        /\ (/\ pc[i] = "returned"
            /\ last.set
            /\ last.options = options[i]
            /\ last.outcome.kind = "return") =>
                /\ outcome[i] = last.outcome
                /\ Disk(dirs, files) = last.disk

\* The second of two calls with the same options has returned, on a
\* destination the first one had populated.
C4_Witness ==
    \E i \in Procs :
        /\ pc[i] = "returned"
        /\ last.set
        /\ last.options = options[i]
        /\ last.outcome.kind = "return"
        /\ fullProjectPath(options[i]) \in disk0[i].dirs
        /\ disk0[i] = last.disk

(***************************************************************************)
(* C5                                                                      *)
(***************************************************************************)
\* C5: an invocation that is over, and that overlapped only invocations
\* whose destinations are different from its own and not nested with it, has
\* the result it has when run alone on the disk it started on, and the disk
\* at and below its destination is what that run leaves there.
C5_IndependentDestinations ==
    \A i \in Procs :
        (/\ pc[i] \in {"returned", "thrown"}
         /\ \A d \in peers[i] : Independent(d, fullProjectPath(options[i]))) =>
            LET alone == Alone(options[i], disk0[i]) IN
            /\ outcome[i] = alone.outcome
            /\ SameBelow(Disk(dirs, files), alone.disk,
                         fullProjectPath(options[i]))

\* Two invocations with unrelated destinations overlapped, and both returned.
C5_Witness ==
    \E i, j \in Procs :
        /\ i # j
        /\ pc[i] = "returned"
        /\ pc[j] = "returned"
        /\ fullProjectPath(options[j]) \in peers[i]
        /\ fullProjectPath(options[i]) \in peers[j]
        /\ Independent(fullProjectPath(options[i]), fullProjectPath(options[j]))

(***************************************************************************)
(* C6                                                                      *)
(***************************************************************************)
\* C6: whatever calls ran before and whatever the disk holds, a generator of
\* a template's files map has produced one content only for given options.
C6_GeneratorsDeterministic ==
    \A a, b \in generated : (a[1] = b[1] /\ a[2] = b[2]) => a[3] = b[3]

\* A call generates the README that an earlier call with the same options
\* generated and wrote.
C6_Witness ==
    \E i \in Procs :
        /\ pc[i] = "pending"
        /\ op[i].gen = "generateReadme"
        /\ <<op[i].gen, options[i], op[i].content>> \in generated
        /\ last.set
        /\ last.options = options[i]
        /\ last.outcome.kind = "return"
        /\ op[i].path \in DOMAIN files

(***************************************************************************)
(* C7                                                                      *)
(***************************************************************************)
TestDevDependencies == {"jest", "@types/jest", "ts-jest"}

TestScripts == {"test", "test:watch"}

\* The number of devDependencies the template and the linting flag give.
OtherDevDependencies(o) ==
    Len(Lookup(o.template).devDependencies)
    + (IF o.includeLinting THEN 4 ELSE 0)

\* What the manifest holds for testing, but for the number of entries.
TestEntries(pkg, o) ==
    IF o.includeTests
    THEN /\ TestDevDependencies \subseteq Keys(pkg.devDependencies)
         /\ \A k \in TestDevDependencies :
                Get(pkg.devDependencies, k) = "latest"
         /\ TestScripts \subseteq Keys(pkg.scripts)
         /\ Get(pkg.scripts, "test") = "jest"
         /\ Get(pkg.scripts, "test:watch") = "jest --watch"
         /\ Len(pkg.scripts) = 3 + 2 + (IF o.includeLinting THEN 3 ELSE 0)
    ELSE /\ TestDevDependencies \cap Keys(pkg.devDependencies) = {}
         /\ TestScripts \cap Keys(pkg.scripts) = {}
         /\ Len(pkg.devDependencies) = OtherDevDependencies(o)

\* C7 as stated: with includeTests the manifest gains four devDependency
\* entries for testing, each "latest", and the scripts test and test:watch;
\* without it, none of them.
C7_FourTestDevDependencies ==
    \A i \in Procs :
        packageJson[i].set =>
            /\ TestEntries(packageJson[i].value, options[i])
            /\ options[i].includeTests =>
                   Len(packageJson[i].value.devDependencies)
                     = OtherDevDependencies(options[i]) + 4

\* C7 as amended: with includeTests the manifest gains three devDependency
\* entries for testing (jest, @types/jest, ts-jest), each "latest", and the
\* scripts test and test:watch; without it, none of them.
C7_ThreeTestDevDependencies ==
    \A i \in Procs :
        packageJson[i].set =>
            /\ TestEntries(packageJson[i].value, options[i])
            /\ options[i].includeTests =>
                   Len(packageJson[i].value.devDependencies)
                     = OtherDevDependencies(options[i]) + 3

\* A manifest with the test entries has been generated.
C7_Witness ==
    \E i \in Procs :
        /\ packageJson[i].set
        /\ options[i].includeTests
        /\ HasKey(packageJson[i].value.devDependencies, "ts-jest")
        /\ HasKey(packageJson[i].value.scripts, "test:watch")

(***************************************************************************)
(* C8                                                                      *)
(***************************************************************************)
\* C8: the manifest has a bin entry iff the template is cli, whatever the
\* flags; the entry has the one key projectName, mapped to ./dist/index.js.
C8_BinIffCli ==
    \A i \in Procs :
        packageJson[i].set =>
            LET pkg == packageJson[i].value IN
            /\ ("bin" \in DOMAIN pkg) <=> (options[i].template = "cli")
            /\ "bin" \in DOMAIN pkg =>
                   pkg.bin = <<<<options[i].projectName, "./dist/index.js">>>>

\* The manifest of a cli project has been generated, with its bin entry.
C8_Witness ==
    \E i \in Procs :
        /\ packageJson[i].set
        /\ options[i].template = "cli"
        /\ "bin" \in DOMAIN packageJson[i].value

(***************************************************************************)
(* C9                                                                      *)
(***************************************************************************)
\* The compiler configuration with declaration and declarationMap both d.
TsConfigWith(d) ==
    [compilerOptions |->
        [target |-> "ES2020", module |-> "commonjs", lib |-> <<"ES2020">>,
         outDir |-> "./dist", rootDir |-> "./src", strict |-> TRUE,
         esModuleInterop |-> TRUE, skipLibCheck |-> TRUE,
         forceConsistentCasingInFileNames |-> TRUE,
         declaration |-> d, declarationMap |-> d, sourceMap |-> TRUE],
     include |-> <<"src/**/*">>,
     exclude |-> <<"node_modules", "dist">>]

\* C9: declaration and declarationMap are both true for the library template
\* and both false for every other, sourceMap is true, and every other field
\* is the same for all options.
C9_DeclarationsIffLibrary ==
    \A i \in Procs :
        tsConfig[i].set =>
            /\ tsConfig[i].value
                 = TsConfigWith(options[i].template = "library")
            /\ tsConfig[i].value.compilerOptions.sourceMap

\* The configuration of a library and that of another template: generated.
C9_Witness ==
    \E i \in Procs :
        /\ tsConfig[i].set
        /\ options[i].template = "library"
        /\ tsConfig[i].value.compilerOptions.declaration
        /\ last.set
        /\ last.options.template \in {"basic", "express", "cli"}
        /\ last.outcome.kind = "return"

(***************************************************************************)
(* C10                                                                     *)
(***************************************************************************)
CommonTemplateFiles == {<<"src", "index.ts">>, <<"README.md">>}

CommonFiles ==
    {<<"package.json">>, <<"tsconfig.json">>} \cup CommonTemplateFiles

Range(seq) == {seq[n] : n \in 1..Len(seq)}

\* C10: each of the four templates has src/index.ts and README.md in its
\* files map, and a call that returns has written package.json,
\* tsconfig.json, src/index.ts and README.md, which are on disk.
C10_CommonFiles ==
    /\ \A t \in KnownTemplates :
           CommonTemplateFiles
             \subseteq {Lookup(t).files[n].path : n \in 1..Len(Lookup(t).files)}
    /\ \A i \in Procs :
           pc[i] = "returned" =>
               \A f \in CommonFiles :
                   /\ f \in Range(outcome[i].filesCreated)
                   /\ join(fullProjectPath(options[i]), f) \in Range(written[i])
                   /\ join(fullProjectPath(options[i]), f) \in DOMAIN files

\* A basic project without any optional file has been created.
C10_Witness ==
    \E i \in Procs :
        /\ pc[i] = "returned"
        /\ options[i].template = "basic"
        /\ AllFlags(options[i], FALSE)
        /\ Len(written[i]) = 4

(***************************************************************************)
(* The invocation boundary                                                 *)
(***************************************************************************)
\* The result carries the error mark.
Marked(result) == "isError" \in DOMAIN result /\ result.isError

\* C11: whenever createProject has thrown (template not found, a refused
\* file-system operation, or any other error), the handler answers with a
\* result that is marked as an error and whose text is the error's message
\* behind the fixed prefix; the handler itself never throws; and when
\* createProject has returned, the result carries no error mark.
C11_FailureBecomesMarkedResult ==
    last.set =>
        /\ last.response.kind = "result"
        /\ last.outcome.kind = "throw" =>
               /\ Marked(last.response.result)
               /\ last.response.result.content =
                      <<"Error creating project: ">> \o last.outcome.message
        /\ last.outcome.kind = "return" => ~Marked(last.response.result)

\* The handler has answered a call whose file-system operation was refused
\* after the first file had been written.
C11_Witness ==
    /\ last.set
    /\ last.outcome.kind = "throw"
    /\ last.outcome.message = <<InjectedFault>>
    /\ last.disk.files # NoFiles
    /\ Marked(last.response.result)

(***************************************************************************)
(* The order of the I/O of one invocation                                  *)
(***************************************************************************)
\* The operations of invocation i that have been issued and have not ended.
InFlight(i) == Range(attempted[i]) \ Range(completed[i])

\* The operations of invocation i that have ended without an error.
Succeeded(i) == Range(completed[i]) \ {failedAt[i]}

\* C12: in an invocation, at most one mkdir or writeFile is in flight; the
\* operations end in the order they were issued, and each is issued only
\* when every earlier one has ended; when a writeFile is issued, the mkdir of
\* the project root and a mkdir that covers the file's parent directory have
\* already succeeded; and filesCreated holds only paths whose write has
\* completed, in the order of completion.
C12_OneOperationAtATime ==
    \A i \in Procs :
        pc[i] # "idle" =>
            LET ops == Ops(options[i])
                full == fullProjectPath(options[i])
                fc == filesCreated[i]
            IN  /\ Cardinality(InFlight(i)) <= 1
                /\ InFlight(i) = IF pc[i] = "pending" THEN {step[i]} ELSE {}
                /\ Len(completed[i]) <= Len(attempted[i])
                /\ completed[i] = SubSeq(attempted[i], 1, Len(completed[i]))
                /\ \A n \in Range(attempted[i]) :
                       /\ \A m \in 1..(n - 1) : m \in Range(completed[i])
                       /\ ops[n].op = "writeFile" =>
                              /\ \E m \in Succeeded(i) :
                                     m < n /\ ops[m] = MkdirOp(full)
                              /\ \E m \in Succeeded(i) :
                                     /\ m < n
                                     /\ ops[m].op = "mkdir"
                                     /\ dirname(ops[n].path)
                                            \in Prefixes(ops[m].path)
                /\ Len(fc) <= Len(written[i])
                /\ \A n \in 1..Len(fc) : join(full, fc[n]) = written[i][n]

\* The write of a file two directories below the project root is in flight,
\* after the writes of at least three files have completed and been
\* recorded.
C12_Witness ==
    \E i \in Procs :
        /\ pc[i] = "pending"
        /\ op[i].op = "writeFile"
        /\ Len(op[i].push) = 3
        /\ InFlight(i) = {step[i]}
        /\ Len(completed[i]) = step[i] - 1
        /\ Len(filesCreated[i]) >= 3
        /\ Len(filesCreated[i]) = Len(written[i])

====
